---- MODULE Spec2Model ----
(***************************************************************************)
(* SessionLimiter of src/handler/sessions/limiter.rs: the set of tracked   *)
(* sessions with peers whose ENR is unreachable, the receiver of expired   *)
(* sessions, and the limit.  track_sessions_unreachable_enr is modelled    *)
(* at the granularity of its channel operations (one step per try_next),   *)
(* because the senders of the channel run outside the limiter and may      *)
(* send between two receive attempts of one call.                          *)
(***************************************************************************)
EXTENDS Naturals, Sequences, FiniteSets

\* Bounds of the model.
NumNodes == 2
MaxLimit == 1
MaxChan == 2

\* NodeAddress values (opaque keys) and the value standing for "no node".
Nodes == 1..NumNodes
NoNode == 0

\* What the limiter reads from an Enr: udp4_socket().is_some(), udp6_socket().is_some().
Enrs == [udp4 : BOOLEAN, udp6 : BOOLEAN]
NoEnr == [udp4 |-> FALSE, udp6 |-> FALSE]

VARIABLES
    sessions_unreachable_enr_tracker, \* HashSet<NodeAddress>
    rx_expired_sessions,              \* messages buffered in the mpsc channel, oldest first
    rx_closed,                        \* TRUE once every Sender of the channel is dropped
    limit,                            \* usize, fixed at construction
    pc,                               \* "idle" | "drain" | "decide" | "ret" | "released"
    node_address,                     \* argument of the operation in progress / last completed
    enr,                              \* argument of the track call in progress / last completed
    result,                           \* "none" | "Ok" | "Err" (LimitSessionsUnreachableEnr)
    sessions,                         \* session table: Nodes -> "none" | "reach" | "unreach"
    pre,                              \* tracker when the current/last operation was entered
    pend,                             \* channel contents when the current/last track call was entered
    consumed,                         \* messages the drain loop of that call has received, in order
    drained,                          \* tracker when the drain loop of that call stopped
    prev,                             \* the release completed right before the current/last track call
    stopped,                          \* receive result that ended the drain loop: "none" | "Err" | "OkNone"
    scenario                          \* position in the scripted scenario (stays NoScenario outside it)

limiter == <<sessions_unreachable_enr_tracker, rx_expired_sessions, rx_closed, limit>>
call == <<pc, node_address, enr, result>>
history == <<pre, pend, consumed, drained, prev, stopped>>
vars == <<limiter, call, sessions, history, scenario>>

\* The set of elements of a sequence.
Range(q) == {q[i] : i \in DOMAIN q}

\* Mutant of Remove: the entry is left in the set.
RemoveNothing(s, a) == s

\* Mutant of Remove: membership is toggled, so a second removal puts the entry back.
RemoveToggle(s, a) == IF a \in s THEN s \ {a} ELSE s \cup {a}

\* HashSet::remove (the returned bool is discarded by every caller).
Remove(s, a) == s \ {a}

\* HashSet::insert.
Insert(s, a) == s \cup {a}

\* Mutant of try_next: a closed channel reports Ok(None) although messages are buffered.
try_nextClosedFirst(q, closed) ==
    IF closed THEN [tag |-> "OkNone", val |-> NoNode, rest |-> q]
    ELSE IF q # <<>> THEN [tag |-> "OkSome", val |-> Head(q), rest |-> Tail(q)]
    ELSE [tag |-> "Err", val |-> NoNode, rest |-> q]

\* futures::channel::mpsc::Receiver::try_next: Ok(Some(m)) when a message is
\* buffered (m is taken off the channel), Ok(None) when the channel is closed and
\* empty, Err otherwise; rest is the channel after the attempt.
try_next(q, closed) ==
    IF q # <<>> THEN [tag |-> "OkSome", val |-> Head(q), rest |-> Tail(q)]
    ELSE IF closed THEN [tag |-> "OkNone", val |-> NoNode, rest |-> q]
    ELSE [tag |-> "Err", val |-> NoNode, rest |-> q]

\* Mutant of DrainContinues: the loop runs until the channel reports that it is closed.
DrainContinuesUntilClosed(r) == r.tag # "OkNone"

\* Mutant of DrainContinues: `Ok(_)` is matched in place of `Ok(Some(_))`.
DrainContinuesOk(r) == r.tag # "Err"

\* `while let Ok(Some(_)) = ...`: the loop body runs for this receive result.
DrainContinues(r) == r.tag = "OkSome"

\* Mutant of IsReachable: the IPv6 socket is not looked at.
IsReachableUdp4Only(e) == e.udp4

\* enr.udp4_socket().is_some() || enr.udp6_socket().is_some()
IsReachable(e) == e.udp4 \/ e.udp6

\* Mutant of LimitReached: `>` for `>=`.
LimitReachedStrict(s, l) == Cardinality(s) > l

\* self.sessions_unreachable_enr_tracker.len() >= self.limit
LimitReached(s, l) == Cardinality(s) >= l

\* Mutant of untrack_session: nothing is removed.
untrack_sessionNothing(s, a) == s

\* Mutant of untrack_session: membership is toggled.
untrack_sessionToggle(s, a) == IF a \in s THEN s \ {a} ELSE s \cup {a}

\* Mutant of untrack_session: `clear` for `remove`.
untrack_sessionClear(s, a) == {}

\* untrack_session: the tracker after the call.
untrack_session(s, a) == Remove(s, a)

\* Mutant of Decision: the capacity check comes before the classification.
DecisionGateAll(s, a, e, l) ==
    IF LimitReached(s, l) THEN [res |-> "Err", tracker |-> s]
    ELSE IF IsReachable(e) THEN [res |-> "Ok", tracker |-> s]
    ELSE [res |-> "Ok", tracker |-> Insert(s, a)]

\* Mutant of Decision: the identity is inserted before the capacity check.
DecisionInsertFirst(s, a, e, l) ==
    IF IsReachable(e) THEN [res |-> "Ok", tracker |-> s]
    ELSE IF LimitReached(s, l) THEN [res |-> "Err", tracker |-> Insert(s, a)]
    ELSE [res |-> "Ok", tracker |-> Insert(s, a)]

\* Mutant of Decision: a tracked identity that now shows a reachable record is untracked.
DecisionReclassify(s, a, e, l) ==
    IF IsReachable(e) THEN [res |-> "Ok", tracker |-> Remove(s, a)]
    ELSE IF LimitReached(s, l) THEN [res |-> "Err", tracker |-> s]
    ELSE [res |-> "Ok", tracker |-> Insert(s, a)]

\* Mutant of Decision: every admitted peer is tracked, reachable or not.
DecisionTrackAll(s, a, e, l) ==
    IF IsReachable(e) THEN [res |-> "Ok", tracker |-> Insert(s, a)]
    ELSE IF LimitReached(s, l) THEN [res |-> "Err", tracker |-> s]
    ELSE [res |-> "Ok", tracker |-> Insert(s, a)]

\* Mutant of Decision: an identity that is already tracked is admitted without the check.
DecisionReadmit(s, a, e, l) ==
    IF IsReachable(e) THEN [res |-> "Ok", tracker |-> s]
    ELSE IF a \in s THEN [res |-> "Ok", tracker |-> s]
    ELSE IF LimitReached(s, l) THEN [res |-> "Err", tracker |-> s]
    ELSE [res |-> "Ok", tracker |-> Insert(s, a)]

\* The decision of track_sessions_unreachable_enr after the drain, on tracker s.
Decision(s, a, e, l) ==
    IF IsReachable(e) THEN [res |-> "Ok", tracker |-> s]
    ELSE IF LimitReached(s, l) THEN [res |-> "Err", tracker |-> s]
    ELSE [res |-> "Ok", tracker |-> Insert(s, a)]

InCall == pc \in {"drain", "decide"}

NoPrev == [op |-> "none", node |-> NoNode, pre |-> {}]

\* Value of scenario in behaviours that do not follow the scripted scenario.
NoScenario == [step |-> 0, ids |-> <<>>, enr |-> NoEnr]

\* The release that has just completed, if the last completed operation is one.
LastRelease ==
    IF pc = "released"
    THEN [op |-> "release", node |-> node_address, pre |-> pre]
    ELSE NoPrev

\* SessionLimiter::new(rx_expired_sessions, limit), no session established yet.
Init ==
    /\ sessions_unreachable_enr_tracker = {}
    /\ rx_expired_sessions = <<>>
    /\ rx_closed = FALSE
    /\ limit \in 0..MaxLimit
    /\ pc = "idle"
    /\ node_address = NoNode
    /\ enr = NoEnr
    /\ result = "none"
    /\ sessions = [n \in Nodes |-> "none"]
    /\ pre = {}
    /\ pend = <<>>
    /\ consumed = <<>>
    /\ drained = {}
    /\ prev = NoPrev
    /\ stopped = "none"
    /\ scenario = NoScenario

\* Entry of track_sessions_unreachable_enr(node_address, enr).
TrackCall(a, e) ==
    /\ ~InCall
    /\ pc' = "drain"
    /\ node_address' = a
    /\ enr' = e
    /\ result' = "none"
    /\ pre' = sessions_unreachable_enr_tracker
    /\ pend' = rx_expired_sessions
    /\ consumed' = <<>>
    /\ drained' = {}
    /\ prev' = LastRelease
    /\ stopped' = "none"
    /\ UNCHANGED <<limiter, sessions>>

\* One iteration of the loop of drain_expired_sessions_buffer: a message is received.
DrainRecv ==
    /\ pc = "drain"
    /\ LET r == try_next(rx_expired_sessions, rx_closed) IN
        /\ DrainContinues(r)
        /\ sessions_unreachable_enr_tracker' = Remove(sessions_unreachable_enr_tracker, r.val)
        /\ rx_expired_sessions' = r.rest
        /\ consumed' = Append(consumed, r.val)
    /\ UNCHANGED <<rx_closed, limit, call, sessions, pre, pend, drained, prev, stopped>>

\* The loop of drain_expired_sessions_buffer ends: Err (empty) or Ok(None) (closed).
DrainStop ==
    /\ pc = "drain"
    /\ LET r == try_next(rx_expired_sessions, rx_closed) IN
        /\ ~DrainContinues(r)
        /\ rx_expired_sessions' = r.rest
        /\ stopped' = r.tag
    /\ pc' = "decide"
    /\ drained' = sessions_unreachable_enr_tracker
    /\ UNCHANGED <<sessions_unreachable_enr_tracker, rx_closed, limit, node_address, enr,
                   result, sessions, pre, pend, consumed, prev>>

\* Classification, capacity check, insertion and return.  On success the caller
\* establishes the session of node_address.
Decide ==
    /\ pc = "decide"
    /\ LET d == Decision(sessions_unreachable_enr_tracker, node_address, enr, limit) IN
        /\ sessions_unreachable_enr_tracker' = d.tracker
        /\ result' = d.res
        /\ sessions' = IF d.res = "Ok"
                       THEN [sessions EXCEPT ![node_address] =
                                IF IsReachable(enr) THEN "reach" ELSE "unreach"]
                       ELSE sessions
    /\ pc' = "ret"
    /\ UNCHANGED <<rx_expired_sessions, rx_closed, limit, node_address, enr, history>>

\* untrack_session(node_address): the session is torn down by other means than expiry.
Release(a) ==
    /\ ~InCall
    /\ pc' = "released"
    /\ node_address' = a
    /\ pre' = sessions_unreachable_enr_tracker
    /\ sessions_unreachable_enr_tracker' = untrack_session(sessions_unreachable_enr_tracker, a)
    /\ sessions' = [sessions EXCEPT ![a] = "none"]
    /\ enr' = NoEnr
    /\ result' = "none"
    /\ pend' = <<>>
    /\ consumed' = <<>>
    /\ drained' = {}
    /\ prev' = NoPrev
    /\ stopped' = "none"
    /\ UNCHANGED <<rx_expired_sessions, rx_closed, limit>>

\* A session expires in the session table: its NodeAddress is sent on the channel.
Expire(a) ==
    /\ sessions[a] # "none"
    /\ ~rx_closed
    /\ Len(rx_expired_sessions) < MaxChan
    /\ rx_expired_sessions' = Append(rx_expired_sessions, a)
    /\ sessions' = [sessions EXCEPT ![a] = "none"]
    /\ UNCHANGED <<sessions_unreachable_enr_tracker, rx_closed, limit, call, history>>

\* The last Sender of the channel is dropped.
Close ==
    /\ ~rx_closed
    /\ rx_closed' = TRUE
    /\ UNCHANGED <<sessions_unreachable_enr_tracker, rx_expired_sessions, limit, call,
                   sessions, history>>

\* Any operation of the limiter or of the producers, outside the scripted scenario.
Step ==
    \/ \E a \in Nodes, e \in Enrs : TrackCall(a, e)
    \/ DrainRecv
    \/ DrainStop
    \/ Decide
    \/ \E a \in Nodes : Release(a)
    \/ \E a \in Nodes : Expire(a)
    \/ Close

Next == Step /\ UNCHANGED scenario

Spec == Init /\ [][Next]_vars

\* A call that has been entered runs to its return, and calls keep being made.
FairSpec ==
    /\ Spec
    /\ WF_vars(DrainRecv /\ UNCHANGED scenario)
    /\ WF_vars(DrainStop /\ UNCHANGED scenario)
    /\ WF_vars(Decide /\ UNCHANGED scenario)
    /\ WF_vars((\E a \in Nodes, e \in Enrs : TrackCall(a, e)) /\ UNCHANGED scenario)

\* All sequences over S of length at most n.
SeqsUpTo(S, n) == UNION {[1..k -> S] : k \in 0..n}

\* The loop of drain_expired_sessions_buffer run to its end on tracker s and
\* channel q with no send in between: the tracker it leaves.
RECURSIVE DrainAll(_, _, _)
DrainAll(s, q, closed) ==
    LET r == try_next(q, closed) IN
        IF DrainContinues(r) THEN DrainAll(Remove(s, r.val), r.rest, closed) ELSE s

\* A single call entered in any state the limiter can hold: any tracker within
\* any limit up to the number of identities, any messages buffered (in any
\* order, repeated, for tracked or untracked identities), channel open or closed.
CallInit ==
    /\ limit \in 0..NumNodes
    /\ sessions_unreachable_enr_tracker \in
            {t \in SUBSET Nodes : Cardinality(t) <= limit}
    /\ rx_expired_sessions \in SeqsUpTo(Nodes, MaxChan)
    /\ rx_closed \in BOOLEAN
    /\ pc = "drain"
    /\ node_address \in Nodes
    /\ enr \in Enrs
    /\ result = "none"
    /\ sessions = [n \in Nodes |-> "none"]
    /\ pre = sessions_unreachable_enr_tracker
    /\ pend = rx_expired_sessions
    /\ consumed = <<>>
    /\ drained = {}
    /\ prev = NoPrev
    /\ stopped = "none"
    /\ scenario = NoScenario

CallNext == (DrainRecv \/ DrainStop \/ Decide) /\ UNCHANGED scenario

CallSpec == CallInit /\ [][CallNext]_vars

\* The scripted scenario: four distinct identities A, B, C, D (ids[1..4]), limit 2,
\* D showing any reachable record.  scenario.step counts the completed operations.
ScenarioInit ==
    /\ sessions_unreachable_enr_tracker = {}
    /\ rx_expired_sessions = <<>>
    /\ rx_closed = FALSE
    /\ limit = 2
    /\ pc = "idle"
    /\ node_address = NoNode
    /\ enr = NoEnr
    /\ result = "none"
    /\ sessions = [n \in 1..4 |-> "none"]
    /\ pre = {}
    /\ pend = <<>>
    /\ consumed = <<>>
    /\ drained = {}
    /\ prev = NoPrev
    /\ stopped = "none"
    /\ scenario \in
            {[step |-> 0, ids |-> q, enr |-> e] :
                q \in {f \in [1..4 -> 1..4] : \A i, j \in 1..4 : f[i] = f[j] => i = j},
                e \in {x \in Enrs : IsReachable(x)}}

\* The identity and the record of the call the script makes after `step` operations.
ScenarioNode == scenario.ids[CASE scenario.step = 0 -> 1
                               [] scenario.step = 1 -> 2
                               [] scenario.step = 5 -> 4
                               [] OTHER -> 3]
ScenarioEnr == IF scenario.step = 5 THEN scenario.enr ELSE NoEnr

\* admit A, admit B, admit C, expire A, admit C, admit D, one after the other.
ScenarioNext ==
    \/ /\ scenario.step \in {0, 1, 2, 4, 5}
       /\ TrackCall(ScenarioNode, ScenarioEnr)
       /\ UNCHANGED scenario
    \/ DrainRecv /\ UNCHANGED scenario
    \/ DrainStop /\ UNCHANGED scenario
    \/ Decide /\ scenario' = [scenario EXCEPT !.step = @ + 1]
    \/ /\ scenario.step = 3
       /\ ~InCall
       /\ Expire(scenario.ids[1])
       /\ scenario' = [scenario EXCEPT !.step = 4]

ScenarioSpec == ScenarioInit /\ [][ScenarioNext]_vars

TypeOK ==
    /\ sessions_unreachable_enr_tracker \subseteq Nodes
    /\ Len(rx_expired_sessions) <= MaxChan
    /\ limit \in 0..MaxLimit
    /\ pc \in {"idle", "drain", "decide", "ret", "released"}
    /\ result \in {"none", "Ok", "Err"}

(***************************************************************************)
(* Vocabulary of the properties.                                           *)
(***************************************************************************)

\* track_sessions_unreachable_enr has returned and nothing has changed the tracker since.
Returned == pc = "ret"

\* The record of the current/last track call advertises neither UDP endpoint.
UnreachableEnr == ~enr.udp4 /\ ~enr.udp6

\* Identities with a live session that was admitted with an unreachable record.
LiveUnreachable == {a \in Nodes : sessions[a] = "unreach"}

\* No expiry message reached the current/last track call.
NoExpirySeen == pend = <<>> /\ consumed = <<>>

(***************************************************************************)
(* C1                                                                      *)
(***************************************************************************)

\* C1: in every reachable state the number of tracked identities is at most
\* limit, and the bound is kept by rejecting only: the capacity check and
\* insertion of a call remove nothing (the tracker at return contains the
\* tracker left by the drain, and a rejecting call leaves it as the drain left it).
C1_BoundByRejection ==
    /\ Cardinality(sessions_unreachable_enr_tracker) <= limit
    /\ Returned => drained \subseteq sessions_unreachable_enr_tracker
    /\ (Returned /\ result = "Err") => sessions_unreachable_enr_tracker = drained

\* C1 witness: an unreachable identity is rejected at a full tracker, which keeps its entries.
C1_Witness ==
    /\ Returned
    /\ result = "Err"
    /\ limit >= 1
    /\ Cardinality(sessions_unreachable_enr_tracker) = limit
    /\ node_address \notin sessions_unreachable_enr_tracker

(***************************************************************************)
(* C2                                                                      *)
(***************************************************************************)

\* C2: whenever no track call is in progress, every identity with a live
\* unreachable-peer session is tracked, so the number of live unreachable-peer
\* sessions never exceeds limit.
C2_LiveSessionsTracked ==
    ~InCall =>
        /\ LiveUnreachable \subseteq sessions_unreachable_enr_tracker
        /\ Cardinality(LiveUnreachable) <= limit

(***************************************************************************)
(* C3                                                                      *)
(***************************************************************************)

\* C3: a returned call was rejected if and only if its record advertises
\* neither endpoint and the tracker after the drain had at least limit entries;
\* otherwise it succeeded, and a success for an unreachable peer leaves the
\* peer's identity tracked at return.
C3_RejectIff ==
    Returned =>
        /\ result \in {"Ok", "Err"}
        /\ result = "Err" <=> (UnreachableEnr /\ Cardinality(drained) >= limit)
        /\ (result = "Ok" /\ UnreachableEnr) =>
                node_address \in sessions_unreachable_enr_tracker

\* C3 witness: a rejection decided after the drain consumed a message.
C3_Witness ==
    /\ Returned
    /\ result = "Err"
    /\ consumed # <<>>

(***************************************************************************)
(* C4                                                                      *)
(***************************************************************************)

\* C4 as stated: a call for a reachable peer succeeds and the tracker at
\* return equals the tracker at entry.
C4_Original ==
    (Returned /\ ~UnreachableEnr) =>
        /\ result = "Ok"
        /\ sessions_unreachable_enr_tracker = pre

\* C4 amended: a call for a reachable peer succeeds at any occupancy and adds
\* nothing: the tracker at return is the tracker at entry minus the identities
\* of the expiry messages the call drained (unchanged when it drained none).
C4_ReachableBypass ==
    (Returned /\ ~UnreachableEnr) =>
        /\ result = "Ok"
        /\ sessions_unreachable_enr_tracker = drained
        /\ sessions_unreachable_enr_tracker = pre \ Range(consumed)
        /\ (consumed = <<>> => sessions_unreachable_enr_tracker = pre)

\* C4 witness: a reachable peer admitted at a full tracker.
C4_Witness ==
    /\ Returned
    /\ ~UnreachableEnr
    /\ result = "Ok"
    /\ limit >= 1
    /\ Cardinality(sessions_unreachable_enr_tracker) = limit
    /\ node_address \notin sessions_unreachable_enr_tracker

(***************************************************************************)
(* C5                                                                      *)
(***************************************************************************)

\* The case of C5: the tracker was at its limit (limit >= 1) at entry, an expiry
\* message for a tracked identity was on the stream, and the call is for a new
\* unreachable identity.
C5_Case ==
    /\ limit >= 1
    /\ Cardinality(pre) = limit
    /\ \E i \in DOMAIN pend : pend[i] \in pre
    /\ node_address \notin pre
    /\ UnreachableEnr

\* C5: expiry frees capacity: in that case the call succeeds and the new identity is tracked.
C5_ExpiryFreesCapacity ==
    (Returned /\ C5_Case) =>
        /\ result = "Ok"
        /\ node_address \in sessions_unreachable_enr_tracker

\* C5 witness: such a call has returned.
C5_Witness == Returned /\ C5_Case /\ result = "Ok"

(***************************************************************************)
(* C6                                                                      *)
(***************************************************************************)

\* C6: once the drain of a call has stopped, every message pending at entry has
\* been consumed (they are the first messages received), none of their
\* identities is in the tracker the decision is taken against, and that tracker
\* is the tracker at entry minus the identities received.
C6_DrainExhaustive ==
    pc \in {"decide", "ret"} =>
        /\ Len(consumed) >= Len(pend)
        /\ SubSeq(consumed, 1, Len(pend)) = pend
        /\ drained \cap Range(pend) = {}
        /\ drained = pre \ Range(consumed)
        /\ Returned => sessions_unreachable_enr_tracker \in {drained, drained \cup {node_address}}

\* C6 witness: a call entered with two pending messages, one for a tracked identity, has returned.
C6_Witness ==
    /\ Returned
    /\ Len(pend) = 2
    /\ Range(pend) \cap pre # {}

(***************************************************************************)
(* C7                                                                      *)
(***************************************************************************)

\* The case of C7: the operation right before the call was a release of a tracked
\* identity at a full tracker (limit >= 1), the call is for a different unreachable
\* identity, and no expiry message reached it.
C7_Case ==
    /\ prev.op = "release"
    /\ limit >= 1
    /\ Cardinality(prev.pre) = limit
    /\ prev.node \in prev.pre
    /\ node_address # prev.node
    /\ UnreachableEnr
    /\ NoExpirySeen

\* C7: release is immediate: in that case the call succeeds and its identity is tracked.
C7_ReleaseImmediate ==
    (Returned /\ C7_Case) =>
        /\ result = "Ok"
        /\ node_address \in sessions_unreachable_enr_tracker
        /\ prev.node \notin sessions_unreachable_enr_tracker

\* C7 witness: such a call has returned, for an identity that was not tracked.
C7_Witness == Returned /\ C7_Case /\ result = "Ok" /\ node_address \notin prev.pre

(***************************************************************************)
(* C8                                                                      *)
(***************************************************************************)

\* C8: release is total and idempotent: outside a track call it is enabled for
\* every identity; after it the tracker is the tracker before minus the identity,
\* unchanged if the identity was not tracked, and a second release of the same
\* identity would leave that tracker as it is.
C8_ReleaseIdempotent ==
    /\ ~InCall => \A a \in Nodes : ENABLED Release(a)
    /\ pc = "released" =>
        /\ sessions_unreachable_enr_tracker = pre \ {node_address}
        /\ node_address \notin pre => sessions_unreachable_enr_tracker = pre
        /\ untrack_session(sessions_unreachable_enr_tracker, node_address)
                = sessions_unreachable_enr_tracker

\* C8 witness: a release of an identity that was not tracked, at a non-empty tracker.
C8_Witness ==
    /\ pc = "released"
    /\ node_address \notin pre
    /\ pre # {}

(***************************************************************************)
(* C9                                                                      *)
(***************************************************************************)

\* C9: with no expiration reaching the call, the count never exceeds limit; a call
\* for an unreachable peer entered at a full tracker is rejected and leaves the
\* tracker as it was, and one entered below the limit succeeds and adds its identity.
C9_RejectNoSideEffect ==
    /\ Cardinality(sessions_unreachable_enr_tracker) <= limit
    /\ (Returned /\ UnreachableEnr /\ NoExpirySeen) =>
        /\ Cardinality(pre) >= limit =>
            /\ result = "Err"
            /\ sessions_unreachable_enr_tracker = pre
        /\ Cardinality(pre) < limit =>
            /\ result = "Ok"
            /\ sessions_unreachable_enr_tracker = pre \cup {node_address}

\* C9 witness: the call that would exceed the limit has been rejected.
C9_Witness ==
    /\ Returned
    /\ UnreachableEnr
    /\ NoExpirySeen
    /\ limit >= 1
    /\ Cardinality(pre) = limit
    /\ node_address \notin pre
    /\ result = "Err"

(***************************************************************************)
(* C10                                                                     *)
(***************************************************************************)

\* C10 as stated, for the messages and the release processed by the current or
\* last operations: no identity whose expiry message the call has consumed, and
\* no identity released right before it, is tracked.
C10_Original ==
    /\ Range(consumed) \cap sessions_unreachable_enr_tracker = {}
    /\ prev.op = "release" => prev.node \notin sessions_unreachable_enr_tracker
    /\ pc = "released" => node_address \notin sessions_unreachable_enr_tracker

\* The identity a returned call has inserted, if any.
Inserted ==
    IF Returned /\ result = "Ok" /\ UnreachableEnr THEN {node_address} ELSE {}

\* C10 amended: an identity whose expiry message or release has been processed is
\* not tracked unless a successful admission of that identity as unreachable
\* inserted it again after the processing; nothing else brings an identity back.
C10_ProcessedUntracked ==
    /\ (Range(consumed) \cap sessions_unreachable_enr_tracker) \subseteq Inserted
    /\ prev.op = "release" =>
            ({prev.node} \cap sessions_unreachable_enr_tracker) \subseteq Inserted
    /\ pc = "released" => node_address \notin sessions_unreachable_enr_tracker
    /\ InCall => sessions_unreachable_enr_tracker \subseteq pre
    /\ Returned => sessions_unreachable_enr_tracker \subseteq (pre \cup Inserted)

\* C10 witness: the drain of a returned call removed a tracked identity that stays untracked.
C10_Witness ==
    /\ Returned
    /\ \E a \in Range(consumed) : a \in pre /\ a \notin sessions_unreachable_enr_tracker

(***************************************************************************)
(* C11                                                                     *)
(***************************************************************************)

\* At the return of a call every message that was on the stream at its entry has
\* been consumed, and the identity it names is untracked or is the identity this
\* call has just admitted.
C11_RemovedByNextCall ==
    Returned =>
        /\ Len(consumed) >= Len(pend)
        /\ \A a \in Range(pend) :
                a \notin sessions_unreachable_enr_tracker \/ a \in Inserted

\* C11: stale entries do not consume budget forever: an expired identity is out of
\* tracked (or re-admitted) by the return of the next call, and when calls keep
\* being made every message on the stream is eventually received by a drain,
\* which leaves its identity untracked.
C11_StaleEntriesFreed ==
    /\ []C11_RemovedByNextCall
    /\ \A a \in Nodes :
            (a \in Range(rx_expired_sessions))
                ~> (a \in Range(consumed) /\ a \notin sessions_unreachable_enr_tracker)

\* C11 witness: a returned call was entered with a message for a tracked identity
\* on the stream, and ends with that identity untracked.
C11_Witness ==
    /\ Returned
    /\ \E a \in Range(pend) : a \in pre /\ a \notin sessions_unreachable_enr_tracker
    /\ node_address \notin Range(pend)

(***************************************************************************)
(* C12                                                                     *)
(***************************************************************************)

\* A call never waits: while it drains, a receive attempt either yields a message
\* or ends the loop, and on an empty channel it ends the loop; the loop has ended
\* on an attempt that found no message, after the messages pending at entry.
C12_NeverSuspends ==
    /\ pc = "drain" => (ENABLED DrainRecv \/ ENABLED DrainStop)
    /\ (pc = "drain" /\ rx_expired_sessions = <<>>) => ENABLED DrainStop
    /\ pc = "decide" => ENABLED Decide
    /\ pc \in {"decide", "ret"} =>
        /\ stopped \in {"Err", "OkNone"}
        /\ Len(consumed) >= Len(pend)

\* C12: admit-or-reject never suspends and always terminates, also while sessions
\* expire (and send) during the call.
C12_Terminates ==
    /\ []C12_NeverSuspends
    /\ InCall ~> Returned

\* C12 witness: a call has returned after receiving more messages than were
\* pending at its entry (a producer sent during the drain).
C12_Witness ==
    /\ Returned
    /\ Len(consumed) > Len(pend)

(***************************************************************************)
(* C13                                                                     *)
(***************************************************************************)

\* C13: a closed stream is not an error: on a closed and empty channel the loop
\* ends at once; a returned call has result Ok or Err; and a call that received
\* nothing decides by the same rule whether its drain ended on Ok(None) (closed)
\* or on Err (open and empty): rejected iff unreachable at a full tracker, and
\* tracked grows by the admitted unreachable identity only.
C13_ClosedStream ==
    /\ (pc = "drain" /\ rx_closed /\ rx_expired_sessions = <<>>) =>
            (ENABLED DrainStop /\ ~ENABLED DrainRecv)
    /\ Returned =>
        /\ result \in {"Ok", "Err"}
        /\ stopped \in {"Err", "OkNone"}
        /\ stopped = "OkNone" => rx_closed
        /\ consumed = <<>> =>
            /\ result = "Err" <=> (UnreachableEnr /\ Cardinality(pre) >= limit)
            /\ sessions_unreachable_enr_tracker =
                    IF result = "Ok" /\ UnreachableEnr
                    THEN pre \cup {node_address} ELSE pre

\* C13 witness: a call whose drain ended on Ok(None) admitted a new unreachable identity.
C13_Witness ==
    /\ Returned
    /\ stopped = "OkNone"
    /\ consumed = <<>>
    /\ UnreachableEnr
    /\ result = "Ok"
    /\ node_address \notin pre

(***************************************************************************)
(* C14                                                                     *)
(***************************************************************************)

\* C14: with limit = 0 tracked is always empty, every returned call for an
\* unreachable peer was rejected and every returned call for a reachable peer succeeded.
C14_LimitZero ==
    limit = 0 =>
        /\ sessions_unreachable_enr_tracker = {}
        /\ Returned =>
            /\ UnreachableEnr => result = "Err"
            /\ ~UnreachableEnr => result = "Ok"

\* C14 witness: with limit = 0 a reachable peer is admitted while an unreachable
\* peer has no session.
C14_Witness ==
    /\ limit = 0
    /\ Returned
    /\ ~UnreachableEnr
    /\ result = "Ok"
    /\ LiveUnreachable = {}

(***************************************************************************)
(* C15                                                                     *)
(***************************************************************************)

\* C15: with limit = 2 and an empty limiter: admit unreachable A succeeds, tracked
\* = {A}; admit unreachable B succeeds, tracked = {A, B}; admit unreachable C is
\* rejected, tracked unchanged; after the expiry message of A, admit unreachable
\* C succeeds, tracked = {B, C}; admit reachable D succeeds, tracked unchanged.
C15_Scenario ==
    LET A == scenario.ids[1]
        B == scenario.ids[2]
        C == scenario.ids[3]
        t == sessions_unreachable_enr_tracker
    IN  ~InCall =>
            /\ scenario.step = 1 => (result = "Ok" /\ t = {A})
            /\ scenario.step = 2 => (result = "Ok" /\ t = {A, B})
            /\ scenario.step = 3 => (result = "Err" /\ t = {A, B})
            /\ scenario.step = 4 => (rx_expired_sessions = <<A>> /\ t = {A, B})
            /\ scenario.step = 5 => (result = "Ok" /\ t = {B, C})
            /\ scenario.step = 6 => (result = "Ok" /\ t = {B, C})

\* C15 witness: the scenario has run to its end.
C15_Witness == scenario.step = 6 /\ Returned

(***************************************************************************)
(* C16                                                                     *)
(***************************************************************************)

\* C16: reachability is classified at admission only: a call adds to tracked
\* nothing but its own identity, and only when its record is unreachable; a call
\* with a reachable record for a tracked identity whose expiry it did not receive
\* leaves it tracked and frees no slot; identities leave tracked only through a
\* received expiry message or their release.
C16_ClassifiedOnce ==
    /\ Returned =>
        /\ (sessions_unreachable_enr_tracker \ pre) \subseteq Inserted
        /\ (pre \ sessions_unreachable_enr_tracker) \subseteq Range(consumed)
        /\ (~UnreachableEnr /\ node_address \in pre /\ node_address \notin Range(consumed)) =>
            /\ node_address \in sessions_unreachable_enr_tracker
            /\ sessions_unreachable_enr_tracker = pre \ Range(consumed)
    /\ pc = "released" => (pre \ sessions_unreachable_enr_tracker) \subseteq {node_address}
    /\ InCall => (pre \ sessions_unreachable_enr_tracker) \subseteq Range(consumed)

\* C16 witness: a tracked identity was admitted again with a reachable record and is still tracked.
C16_Witness ==
    /\ Returned
    /\ ~UnreachableEnr
    /\ node_address \in pre
    /\ node_address \in sessions_unreachable_enr_tracker
    /\ sessions[node_address] = "reach"

(***************************************************************************)
(* C17                                                                     *)
(***************************************************************************)

\* C17: a rejected call leaves tracked as it was at entry, also when messages were
\* pending: it consumed them all and none of them named a tracked identity.
C17_RejectionChangesNothing ==
    (Returned /\ result = "Err") =>
        /\ sessions_unreachable_enr_tracker = pre
        /\ Len(consumed) >= Len(pend)
        /\ Range(consumed) \cap pre = {}

\* C17 witness: a call entered with a pending message at a full tracker was rejected.
C17_Witness ==
    /\ Returned
    /\ result = "Err"
    /\ pend # <<>>
    /\ limit >= 1

(***************************************************************************)
(* C18                                                                     *)
(***************************************************************************)

\* The case of C18: the call is for an unreachable identity that is tracked at
\* entry and for which no expiry message is received by the call.
C18_Case ==
    /\ UnreachableEnr
    /\ node_address \in pre
    /\ node_address \notin Range(consumed)

\* C18: re-admission of a tracked unreachable identity: below the limit the call
\* succeeds and tracked keeps its size (the identity holds one slot); at the
\* limit the call is rejected although the identity already holds a slot; in
\* both cases tracked is what the drain left.
C18_Readmission ==
    (Returned /\ C18_Case) =>
        /\ sessions_unreachable_enr_tracker = drained
        /\ node_address \in sessions_unreachable_enr_tracker
        /\ Cardinality(drained) < limit => result = "Ok"
        /\ Cardinality(drained) >= limit => result = "Err"

\* C18 witness: a tracked identity was admitted again below the limit, and tracked kept its size.
C18_Witness ==
    /\ Returned
    /\ C18_Case
    /\ result = "Ok"
    /\ Cardinality(sessions_unreachable_enr_tracker) = Cardinality(pre)
    /\ consumed = <<>>

(***************************************************************************)
(* C19                                                                     *)
(***************************************************************************)

\* C19: the drain depends on the set of pending identities only: with no send
\* during the call the loop receives exactly the pending messages and leaves
\* tracked minus their identities; every other channel content naming the same
\* set of identities (another order, repetitions) leaves the same tracker; and
\* the slots freed are those of the pending identities that were tracked.
C19_DrainBySet ==
    pc \in {"decide", "ret"} =>
        /\ consumed = pend
        /\ drained = pre \ Range(pend)
        /\ \A q \in SeqsUpTo(Nodes, MaxChan) :
                Range(q) = Range(pend) => DrainAll(pre, q, rx_closed) = drained
        /\ Cardinality(pre) - Cardinality(drained) = Cardinality(Range(pend) \cap pre)

\* C19 witness: a drain has ended on a channel that held the same identity twice
\* and named an untracked identity only.
C19_Witness ==
    /\ pc = "decide"
    /\ Len(pend) = 2
    /\ pend[1] = pend[2]
    /\ pend[1] \notin pre
    /\ pre # {}

(***************************************************************************)
(* C20                                                                     *)
(***************************************************************************)

\* C20: release changes nothing but the membership of its argument: the stream,
\* its closed flag and limit are as before, only the given identity can leave
\* tracked and nothing enters it, so an expired identity that is still tracked
\* stays tracked through the release of another identity.
C20_ReleaseFrame ==
    [][\A a \in Nodes : Release(a) =>
            /\ rx_expired_sessions' = rx_expired_sessions
            /\ rx_closed' = rx_closed
            /\ limit' = limit
            /\ sessions_unreachable_enr_tracker' \subseteq sessions_unreachable_enr_tracker
            /\ (sessions_unreachable_enr_tracker \ sessions_unreachable_enr_tracker') \subseteq {a}
            /\ \A b \in Range(rx_expired_sessions) \cap sessions_unreachable_enr_tracker :
                    b # a => b \in sessions_unreachable_enr_tracker'
      ]_vars

\* C20 witness: after the release of another identity an expired identity is still
\* tracked and its message is still on the stream.
C20_Witness ==
    /\ pc = "released"
    /\ \E b \in Range(rx_expired_sessions) :
            b # node_address /\ b \in sessions_unreachable_enr_tracker
====
